---- MODULE Spec2Model ----
(***************************************************************************)
(* PinArray<T, SIZE>: a structurally pinned fixed-size array               *)
(* (src/src/lib.rs) and its iterators Iter / IterMut (src/src/iter.rs).    *)
(*                                                                         *)
(* The model is one container and a client that calls its public, safe     *)
(* API.  A call is enabled when the borrow checker accepts it: the guards  *)
(* are the receiver types (&self, Pin<&mut Self>, &mut PinArray) and the   *)
(* lifetimes the signatures give to the returned views.  Element storage   *)
(* is addressed: `base` is the address of elements[0], `size_of` the       *)
(* element stride (0 for a zero-sized T), a handle is an index together    *)
(* with the address the code computed for it, and reading or writing       *)
(* through a handle goes through that address.                             *)
(***************************************************************************)
EXTENDS Integers, Sequences, FiniteSets, TLC

\* ------------------------------------------------------------------ bounds
MaxSize == 3
MaxSizeOf == 2
MaxVal == 1
MaxViews == 2

\* ------------------------------------------------------------------ state
VARIABLES
    size,       \* const SIZE
    size_of,    \* core::mem::size_of::<T>(), 0 for a zero-sized T
    unpin,      \* T: Unpin (then PinArray<T, SIZE>: Unpin)
    pinned,     \* the container has been pinned (pin!)
    base,       \* address of elements[0]
    elements,   \* PinArray::elements
    E,          \* the array the container was constructed from (kept until the
                \* first write, << >> after it)
    dirty,      \* some element has been written since construction
    mut_loan,   \* which view holds the exclusive borrow of the container
    get_ret,    \* the Option<&T> a get call returned, while it is held
    iters,      \* the Iter values the client holds
    ref_array,  \* the [&T; SIZE] an as_ref_array call returned
    pin_ret,    \* the Option<Pin<&mut T>> a get_pin call returned
    pin_array,  \* the [Pin<&mut T>; SIZE] an as_pin_array call returned
    itm,        \* the IterMut values the client holds
    last,       \* the last size_hint or write call and its result
    panicked    \* some call panicked

vars == << size, size_of, unpin, pinned, base, elements, E, dirty, mut_loan,
           get_ret, iters, ref_array, pin_ret, pin_array, itm, last, panicked >>

IterIds == {"i1", "i2"}
IterMutIds == {"m1", "m2"}

\* Values of T: a zero-sized type has one value.
Vals(sz) == IF sz = 0 THEN {0} ELSE 0..MaxVal

\* All arrays [T; n].
Arrays(n, sz) == [1..n -> Vals(sz)]

\* Two places the container can live at; they do not overlap.
Bases == {1, 2 + MaxSize * MaxSizeOf}

None == [tag |-> "None"]
Some(h) == [tag |-> "Some", v |-> h]
Panic == [tag |-> "Panic"]

Handle(k, a) == [idx |-> k, addr |-> a]

NoView == [live |-> FALSE]
NoLast == [op |-> "none", who |-> "none", a |-> 0, b |-> 0]

\* ------------------------------------------------------------- memory
\* Address of elements[k].
ElemAddr(k) == base + k * size_of

\* <*mut T>::add(n)
PtrAdd(p, n) == p + n * size_of

\* <*mut T>::as_mut(): None for the null pointer.
PtrAsMut(p) == IF p = 0 THEN None ELSE Some(p)

\* Option::unwrap
Unwrap(o) == IF o.tag = "Some" THEN o ELSE Panic

\* An address that is the place of an element of the container as it is now.
InStorage(a) ==
    /\ size_of > 0
    /\ a >= base
    /\ a < base + size * size_of
    /\ (a - base) % size_of = 0

\* Reading a T through an address.  A zero-sized T has no storage and one value.
Load(a) ==
    IF size_of = 0 THEN 0
    ELSE elements[((a - base) \div size_of) + 1]

\* The arrays a write of v through address a can leave.  A write through an
\* address that no longer is an element's place is undefined behaviour: any
\* contents.
StoreOutcomes(a, v) ==
    IF size_of = 0 THEN {elements}
    ELSE IF InStorage(a)
         THEN {[elements EXCEPT ![((a - base) \div size_of) + 1] = v]}
         ELSE Arrays(size, size_of)

\* ------------------------------------------------------------- PinArray
\* Mutant: the bound check lets idx = len through.
SliceGet_OffByOne(idx) ==
    IF idx <= Len(elements) THEN Some(Handle(idx, ElemAddr(idx))) ELSE None

\* <[T]>::get / get_mut on self.elements
SliceGet(idx) ==
    IF idx < Len(elements) THEN Some(Handle(idx, ElemAddr(idx))) ELSE None

\* self.elements[i]: panics out of bounds
SliceIndex(i) ==
    IF i < Len(elements) THEN Some(Handle(i, ElemAddr(i))) ELSE Panic

len == size

is_empty == len = 0

get(idx) == SliceGet(idx)

get_pin(idx) == SliceGet(idx)

\* self.elements.as_mut_ptr()
as_mut_ptr == base

\* Mutant: the slots are filled from the last element down.
as_ref_array_Reversed == [i \in 1..size |-> SliceIndex(size - i)]

\* core::array::from_fn over 0..SIZE
as_ref_array == [i \in 1..size |-> SliceIndex(i - 1)]

\* Mutant: the offset starts at 1.
as_pin_array_Shifted ==
    LET arr == as_mut_ptr
    IN  [i \in 1..size |->
            LET p == PtrAdd(arr, i)
                r == Unwrap(PtrAsMut(p))
            IN  IF r.tag = "Some" THEN Some(Handle(i - 1, r.v)) ELSE Panic]

as_pin_array ==
    LET arr == as_mut_ptr
    IN  [i \in 1..size |->
            LET p == PtrAdd(arr, i - 1)
                r == Unwrap(PtrAsMut(p))
            IN  IF r.tag = "Some" THEN Some(Handle(i - 1, r.v)) ELSE Panic]

\* ------------------------------------------------------------- iterators
\* Mutant: the iterator stops one item early.
Exhausted_Early(i) == i + 1 >= size

\* Mutant: `>` for `>=`.
Exhausted_Late(i) == i > size

\* impl_iter!: `if self.i >= SZ { None }`
Exhausted(i) == i >= size

\* Iter: me.els.get(me.i).unwrap()
IterItem(it) == Unwrap(get(it.i))

\* Mutant: the cursor is not added to the pointer.
IterMutItem_NoOffset(it) ==
    LET r == Unwrap(PtrAsMut(it.el_ptr))
    IN  IF r.tag = "Some" THEN Some(Handle(it.i, r.v)) ELSE Panic

\* IterMut: Pin::new_unchecked(me.el_ptr.as_ptr().add(me.i).as_mut().unwrap())
IterMutItem(it) ==
    LET r == Unwrap(PtrAsMut(PtrAdd(it.el_ptr, it.i)))
    IN  IF r.tag = "Some" THEN Some(Handle(it.i, r.v)) ELSE Panic

\* impl_iter!: size_hint; the subtraction is on usize
size_hint(i) ==
    IF i <= size THEN Some(<< size - i, size - i >>) ELSE Panic

\* Iter { i: 0, els }
NewIter == [live |-> TRUE, i |-> 0, out |-> << >>, fin |-> FALSE]

\* IterMut { i: 0, el_ptr: parent.elements.as_mut_ptr(), _phant }
NewIterMut(via) ==
    [live |-> TRUE, i |-> 0, el_ptr |-> as_mut_ptr, out |-> << >>,
     fin |-> FALSE, via |-> via]

\* ------------------------------------------------------------- borrows
\* 'p of the IterMut that PinArray::iter_mut returns is the lifetime of the
\* Pin<&mut Self> it took: the exclusive borrow lasts as long as the iterator.
IterMutLoan(id) == id

\* IterMut::new takes `parent: &mut PinArray<T, SZ>` with an elided lifetime
\* and returns Self = IterMut<'p, T, SZ>: nothing relates 'p to the borrow of
\* parent, which ends with the call.
IterMutNewLoan(id) == "none"

\* Some shared borrow of the container is live.
SharedLive ==
    get_ret.live \/ ref_array.live \/ \E id \in IterIds : iters[id].live

\* The views the client holds.
LiveCount ==
    Cardinality({id \in IterIds : iters[id].live})
    + Cardinality({id \in IterMutIds : itm[id].live})
    + (IF get_ret.live THEN 1 ELSE 0) + (IF ref_array.live THEN 1 ELSE 0)
    + (IF pin_ret.live THEN 1 ELSE 0) + (IF pin_array.live THEN 1 ELSE 0)

\* The client has room for one more view.
Room == LiveCount < MaxViews

\* &self can be taken.
CanShare == mut_loan = "none"

\* &mut self can be borrowed at all.
CanBorrowMut == mut_loan = "none" /\ ~SharedLive

\* Safe code can make a Pin<&mut Self>: the container is pinned, or it is
\* Unpin and Pin::new does.
CanPinMut == CanBorrowMut /\ (pinned \/ unpin)

\* Safe code can make a &mut PinArray: the container is not pinned yet, or it
\* is Unpin and Pin::get_mut does.
CanMutRef == CanBorrowMut /\ (~pinned \/ unpin)

\* ------------------------------------------------------------- Init
Init ==
    /\ size \in 0..MaxSize
    /\ size_of \in {0, MaxSizeOf}
    /\ unpin \in BOOLEAN
    /\ pinned = FALSE
    /\ base = 1
    /\ elements \in Arrays(size, size_of)
    /\ E = elements
    /\ dirty = FALSE
    /\ mut_loan = "none"
    /\ get_ret = NoView
    /\ iters = [id \in IterIds |-> NoView]
    /\ ref_array = NoView
    /\ pin_ret = NoView
    /\ pin_array = NoView
    /\ itm = [id \in IterMutIds |-> NoView]
    /\ last = NoLast
    /\ panicked = FALSE

\* ------------------------------------------------------------- actions
Last(op, who, a, b) == [op |-> op, who |-> who, a |-> a, b |-> b]

HasPanic(slots) == \E i \in DOMAIN slots : slots[i].tag = "Panic"

\* pin!(array): the container is moved into its pinned place and stays.
PinIt ==
    /\ ~panicked /\ ~pinned /\ CanBorrowMut
    /\ pinned' = TRUE
    /\ base' \in Bases
    /\ last' = NoLast
    /\ UNCHANGED << size, size_of, unpin, elements, E, dirty, mut_loan, get_ret,
                    iters, ref_array, pin_ret, pin_array, itm, panicked >>

\* `let b = a;`: an unpinned, unborrowed container is moved.
Move ==
    /\ ~panicked /\ ~pinned /\ CanBorrowMut
    /\ base' \in Bases \ {base}
    /\ last' = NoLast
    /\ UNCHANGED << size, size_of, unpin, pinned, elements, E, dirty, mut_loan,
                    get_ret, iters, ref_array, pin_ret, pin_array, itm, panicked >>

Get(idx) ==
    /\ ~panicked /\ CanShare /\ Room /\ ~get_ret.live
    /\ get_ret' = [live |-> TRUE, idx |-> idx, res |-> get(idx)]
    /\ last' = NoLast
    /\ UNCHANGED << size, size_of, unpin, pinned, base, elements, E, dirty,
                    mut_loan, iters, ref_array, pin_ret, pin_array, itm, panicked >>

DropGet ==
    /\ ~panicked /\ get_ret.live
    /\ get_ret' = NoView
    /\ last' = NoLast
    /\ UNCHANGED << size, size_of, unpin, pinned, base, elements, E, dirty,
                    mut_loan, iters, ref_array, pin_ret, pin_array, itm, panicked >>

AsRefArray ==
    /\ ~panicked /\ CanShare /\ Room /\ ~ref_array.live
    /\ ref_array' = [live |-> TRUE, slots |-> as_ref_array]
    /\ panicked' = HasPanic(as_ref_array)
    /\ last' = NoLast
    /\ UNCHANGED << size, size_of, unpin, pinned, base, elements, E, dirty,
                    mut_loan, get_ret, iters, pin_ret, pin_array, itm >>

DropRefArray ==
    /\ ~panicked /\ ref_array.live
    /\ ref_array' = NoView
    /\ last' = NoLast
    /\ UNCHANGED << size, size_of, unpin, pinned, base, elements, E, dirty,
                    mut_loan, get_ret, iters, pin_ret, pin_array, itm, panicked >>

\* PinArray::iter (and Iter::new, the same constructor)
DoIter(id) ==
    /\ ~panicked /\ CanShare /\ Room /\ ~iters[id].live
    /\ iters' = [iters EXCEPT ![id] = NewIter]
    /\ last' = NoLast
    /\ UNCHANGED << size, size_of, unpin, pinned, base, elements, E, dirty,
                    mut_loan, get_ret, ref_array, pin_ret, pin_array, itm,
                    panicked >>

\* Mutant: `self.i += 1` is missing.
NextOf_NoIncrement(it, item) ==
    IF Exhausted(it.i) THEN [it EXCEPT !.fin = TRUE]
    ELSE IF item.tag = "Panic" THEN it
    ELSE [it EXCEPT !.out = Append(it.out, item.v)]

\* impl_iter!: next, for an iterator value it whose item is item
NextOf(it, item) ==
    IF Exhausted(it.i) THEN [it EXCEPT !.fin = TRUE]
    ELSE IF item.tag = "Panic" THEN it
    ELSE [it EXCEPT !.i = it.i + 1, !.out = Append(it.out, item.v)]

NextPanics(it, item) == ~Exhausted(it.i) /\ item.tag = "Panic"

IterNext(id) ==
    /\ ~panicked /\ iters[id].live
    /\ iters' = [iters EXCEPT ![id] = NextOf(iters[id], IterItem(iters[id]))]
    /\ panicked' = NextPanics(iters[id], IterItem(iters[id]))
    /\ last' = NoLast
    /\ UNCHANGED << size, size_of, unpin, pinned, base, elements, E, dirty,
                    mut_loan, get_ret, ref_array, pin_ret, pin_array, itm >>

\* ExactSizeIterator::len / size_hint
HintOf(who, i) ==
    LET r == size_hint(i)
    IN  IF r.tag = "Panic" THEN Last("size_hint", who, 0, 0)
        ELSE Last("size_hint", who, r.v[1], r.v[2])

IterSizeHint(id) ==
    /\ ~panicked /\ iters[id].live
    /\ last' = HintOf(id, iters[id].i)
    /\ panicked' = (size_hint(iters[id].i).tag = "Panic")
    /\ UNCHANGED << size, size_of, unpin, pinned, base, elements, E, dirty,
                    mut_loan, get_ret, iters, ref_array, pin_ret, pin_array, itm >>

DropIter(id) ==
    /\ ~panicked /\ iters[id].live
    /\ iters' = [iters EXCEPT ![id] = NoView]
    /\ last' = NoLast
    /\ UNCHANGED << size, size_of, unpin, pinned, base, elements, E, dirty,
                    mut_loan, get_ret, ref_array, pin_ret, pin_array, itm,
                    panicked >>

GetPin(idx) ==
    /\ ~panicked /\ CanPinMut /\ Room
    /\ pin_ret' = [live |-> TRUE, idx |-> idx, res |-> get_pin(idx)]
    /\ mut_loan' = "get_pin"
    /\ last' = NoLast
    /\ UNCHANGED << size, size_of, unpin, pinned, base, elements, E, dirty,
                    get_ret, iters, ref_array, pin_array, itm, panicked >>

DropGetPin ==
    /\ ~panicked /\ pin_ret.live
    /\ pin_ret' = NoView
    /\ mut_loan' = "none"
    /\ last' = NoLast
    /\ UNCHANGED << size, size_of, unpin, pinned, base, elements, E, dirty,
                    get_ret, iters, ref_array, pin_array, itm, panicked >>

AsPinArray ==
    /\ ~panicked /\ CanPinMut /\ Room
    /\ pin_array' = [live |-> TRUE, slots |-> as_pin_array]
    /\ panicked' = HasPanic(as_pin_array)
    /\ mut_loan' = "as_pin_array"
    /\ last' = NoLast
    /\ UNCHANGED << size, size_of, unpin, pinned, base, elements, E, dirty,
                    get_ret, iters, ref_array, pin_ret, itm >>

DropPinArray ==
    /\ ~panicked /\ pin_array.live
    /\ pin_array' = NoView
    /\ mut_loan' = "none"
    /\ last' = NoLast
    /\ UNCHANGED << size, size_of, unpin, pinned, base, elements, E, dirty,
                    get_ret, iters, ref_array, pin_ret, itm, panicked >>

\* PinArray::iter_mut
DoIterMut(id) ==
    /\ ~panicked /\ CanPinMut /\ Room /\ ~itm[id].live
    /\ itm' = [itm EXCEPT ![id] = NewIterMut("iter_mut")]
    /\ mut_loan' = IterMutLoan(id)
    /\ last' = NoLast
    /\ UNCHANGED << size, size_of, unpin, pinned, base, elements, E, dirty,
                    get_ret, iters, ref_array, pin_ret, pin_array, panicked >>

\* IterMut::new, called by safe code on a &mut PinArray
IterMutNew(id) ==
    /\ ~panicked /\ CanMutRef /\ Room /\ ~itm[id].live
    /\ itm' = [itm EXCEPT ![id] = NewIterMut("new")]
    /\ mut_loan' = IterMutNewLoan(id)
    /\ last' = NoLast
    /\ UNCHANGED << size, size_of, unpin, pinned, base, elements, E, dirty,
                    get_ret, iters, ref_array, pin_ret, pin_array, panicked >>

IterMutNext(id) ==
    /\ ~panicked /\ itm[id].live
    /\ itm' = [itm EXCEPT ![id] = NextOf(itm[id], IterMutItem(itm[id]))]
    /\ panicked' = NextPanics(itm[id], IterMutItem(itm[id]))
    /\ last' = NoLast
    /\ UNCHANGED << size, size_of, unpin, pinned, base, elements, E, dirty,
                    mut_loan, get_ret, iters, ref_array, pin_ret, pin_array >>

IterMutSizeHint(id) ==
    /\ ~panicked /\ itm[id].live
    /\ last' = HintOf(id, itm[id].i)
    /\ panicked' = (size_hint(itm[id].i).tag = "Panic")
    /\ UNCHANGED << size, size_of, unpin, pinned, base, elements, E, dirty,
                    mut_loan, get_ret, iters, ref_array, pin_ret, pin_array, itm >>

\* The iterator and the handles it yielded go out of scope.
DropIterMut(id) ==
    /\ ~panicked /\ itm[id].live
    /\ itm' = [itm EXCEPT ![id] = NoView]
    /\ mut_loan' = IF mut_loan = id THEN "none" ELSE mut_loan
    /\ last' = NoLast
    /\ UNCHANGED << size, size_of, unpin, pinned, base, elements, E, dirty,
                    get_ret, iters, ref_array, pin_ret, pin_array, panicked >>

\* `*handle = v` (Pin::set) through the exclusive handle h
WriteThrough(who, h, v) ==
    /\ elements' \in StoreOutcomes(h.addr, v)
    /\ dirty' = TRUE
    /\ E' = << >>
    /\ last' = Last("write", who, h.idx, v)
    /\ UNCHANGED << size, size_of, unpin, pinned, base, mut_loan, get_ret,
                    iters, ref_array, pin_ret, pin_array, itm, panicked >>

WriteGetPin(v) ==
    /\ ~panicked /\ pin_ret.live /\ pin_ret.res.tag = "Some"
    /\ WriteThrough("get_pin", pin_ret.res.v, v)

WritePinArray(k, v) ==
    /\ ~panicked /\ pin_array.live /\ k \in DOMAIN pin_array.slots
    /\ WriteThrough("as_pin_array", pin_array.slots[k].v, v)

WriteIterMut(id, k, v) ==
    /\ ~panicked /\ itm[id].live /\ k \in DOMAIN itm[id].out
    /\ WriteThrough(itm[id].via, itm[id].out[k], v)

Next ==
    \/ PinIt
    \/ Move
    \/ \E idx \in 0..(size + 1) : Get(idx)
    \/ DropGet
    \/ AsRefArray
    \/ DropRefArray
    \/ \E id \in IterIds : DoIter(id)
    \/ \E id \in IterIds : IterNext(id)
    \/ \E id \in IterIds : IterSizeHint(id)
    \/ \E id \in IterIds : DropIter(id)
    \/ \E idx \in 0..(size + 1) : GetPin(idx)
    \/ DropGetPin
    \/ AsPinArray
    \/ DropPinArray
    \/ \E id \in IterMutIds : DoIterMut(id)
    \/ \E id \in IterMutIds : IterMutNew(id)
    \/ \E id \in IterMutIds : IterMutNext(id)
    \/ \E id \in IterMutIds : IterMutSizeHint(id)
    \/ \E id \in IterMutIds : DropIterMut(id)
    \/ \E v \in Vals(size_of) : WriteGetPin(v)
    \/ \E k \in 1..MaxSize, v \in Vals(size_of) : WritePinArray(k, v)
    \/ \E id \in IterMutIds, k \in 1..MaxSize, v \in Vals(size_of) :
            WriteIterMut(id, k, v)

Spec == Init /\ [][Next]_vars

\* ------------------------------------------------------------- properties
TiedIterMuts == {id \in IterMutIds : itm[id].live /\ itm[id].via = "iter_mut"}

LiveIterMuts == {id \in IterMutIds : itm[id].live}

LiveIters == {id \in IterIds : iters[id].live}

\* The values a sequence of handles refers to.
Values(hs) == [k \in 1..Len(hs) |-> Load(hs[k].addr)]

\* C1: get(i) returns element i of the container, which is E[i] for the
\* container as constructed, when i < SIZE, and None when i >= SIZE, pinned
\* or not.
C1_GetReturnsElement ==
    get_ret.live =>
        IF get_ret.idx < size
        THEN /\ get_ret.res.tag = "Some"
             /\ get_ret.res.v.idx = get_ret.idx
             /\ Load(get_ret.res.v.addr) = elements[get_ret.idx + 1]
             /\ (~dirty => Load(get_ret.res.v.addr) = E[get_ret.idx + 1])
        ELSE get_ret.res = None

C1_Witness ==
    /\ pinned /\ ~dirty /\ size = MaxSize /\ size_of > 0
    /\ get_ret.live /\ get_ret.idx = 1 /\ get_ret.res.tag = "Some"
    /\ E[1] = 0 /\ E[2] = 1

\* C2 (as claimed): every live IterMut, and so every handle it yielded, holds
\* the exclusive borrow of the container it was created from.
C2_HandlesDieWithBorrow ==
    \A id \in IterMutIds :
        (itm[id].live /\ Len(itm[id].out) > 0) => mut_loan = id

\* C3 (as claimed): an IterMut over a container of a T that is not Unpin
\* exists only while the container is pinned.
C3_IterMutNeedsPin ==
    \A id \in IterMutIds : (itm[id].live /\ ~unpin) => pinned

\* The exclusive views the client holds.
ExclusiveCount ==
    Cardinality(LiveIterMuts)
    + (IF pin_ret.live THEN 1 ELSE 0) + (IF pin_array.live THEN 1 ELSE 0)

\* C4 (as claimed): at most one exclusive view is active, and no shared view
\* is active with it.
C4_OneExclusiveView ==
    /\ ExclusiveCount <= 1
    /\ (ExclusiveCount = 1 => ~SharedLive)

\* C5: an iterator made by iter_mut yields handles in ascending index order,
\* the k-th the handle get_pin(k) gives, pairwise distinct by index, and SIZE
\* of them when it ends; also for a zero-sized T.
C5_IterMutHandles ==
    \A id \in TiedIterMuts :
        LET out == itm[id].out
        IN  /\ Len(out) <= size
            /\ (itm[id].fin => Len(out) = size)
            /\ \A k \in 1..Len(out) :
                    /\ out[k].idx = k - 1
                    /\ Some(out[k]) = get_pin(k - 1)
            /\ \A j, k \in 1..Len(out) : j # k => out[j].idx # out[k].idx

C5_Witness ==
    \E id \in TiedIterMuts :
        /\ itm[id].fin /\ size = MaxSize /\ size_of = 0
        /\ itm[id].out[1].addr = itm[id].out[MaxSize].addr

\* What the Iter id has yielded so far is a prefix of the elements.
IterYieldsElements(id) ==
    LET out == iters[id].out
    IN  /\ Len(out) <= size
        /\ (iters[id].fin => Len(out) = size)
        /\ \A k \in 1..Len(out) : out[k].idx = k - 1
        /\ Values(out) = SubSeq(elements, 1, Len(out))
        /\ (~dirty => Values(out) = SubSeq(E, 1, Len(out)))

\* Two live Iters have yielded the same handles as far as both got.
ItersAgree ==
    \A a, b \in LiveIters :
        \A k \in 1..Len(iters[a].out) :
            k <= Len(iters[b].out) => iters[a].out[k] = iters[b].out[k]

\* A step that creates an Iter: cursor 0, nothing yielded, container untouched.
IterStartsFresh ==
    \A id \in IterIds :
        (~iters[id].live /\ iters'[id].live) =>
            /\ iters'[id].i = 0
            /\ iters'[id].out = << >>
            /\ ~iters'[id].fin
            /\ elements' = elements
            /\ size' = size

\* C6: iter() yields the elements in ascending index order, SIZE of them and
\* then None, equal to E for the container as constructed; two iterators over
\* the same container yield the same sequence; a call of iter() starts at
\* cursor 0 and leaves the container as it is.
C6_IterYieldsE ==
    /\ [](\A id \in LiveIters : IterYieldsElements(id))
    /\ []ItersAgree
    /\ [][IterStartsFresh]_vars

C6_Witness ==
    /\ size = MaxSize /\ size_of > 0 /\ ~dirty
    /\ E[1] = 1 /\ E[2] = 0 /\ E[MaxSize] = 1
    /\ \A id \in IterIds : iters[id].live /\ iters[id].fin

\* The cursor of an iterator value against what it produced and reports.
CursorCounts(it) ==
    /\ it.i <= size
    /\ it.i = Len(it.out)
    /\ size_hint(it.i) = Some(<< size - Len(it.out), size - Len(it.out) >>)
    /\ (size_hint(it.i).v[1] = 0 <=> Exhausted(it.i))
    /\ (it.fin => it.i = size)

\* The iterator value a size_hint record is about.
WhoCursor(who) == IF who \in IterIds THEN iters[who] ELSE itm[who]

\* C7: for Iter and IterMut alike the reported remaining count, lower and
\* upper bound, is SIZE minus the cursor, which is the number of items
\* produced so far; the cursor never exceeds SIZE; the count is 0 exactly
\* when the iterator is exhausted, and a next() that returned None left the
\* cursor at SIZE.
C7_RemainingCount ==
    /\ \A id \in LiveIters : CursorCounts(iters[id])
    /\ \A id \in LiveIterMuts : CursorCounts(itm[id])
    /\ last.op = "size_hint" =>
            /\ WhoCursor(last.who).live
            /\ last.a = size - Len(WhoCursor(last.who).out)
            /\ last.b = last.a

C7_Witness ==
    /\ last.op = "size_hint" /\ last.who \in IterMutIds /\ last.a = 0
    /\ size = MaxSize /\ itm[last.who].fin
    /\ \E id \in LiveIters : iters[id].i = 1

\* What get(j) returns, by value.
GetValue(j) ==
    LET r == get(j)
    IN  IF r.tag = "Some" THEN << Load(r.v.addr) >> ELSE << >>

\* A step that writes through a handle of get_pin, iter_mut or as_pin_array.
WriteFrame ==
    (last'.op = "write" /\ last'.who \in {"get_pin", "iter_mut", "as_pin_array"}) =>
        /\ size' = size
        /\ Len(elements') = Len(elements)
        /\ (GetValue(last.a) = << last.b >>)'
        /\ \A j \in 0..(size + 1) :
                j # last'.a => GetValue(j)' = GetValue(j)

\* C8: a write of v through the exclusive handle for index i that get_pin,
\* iter_mut or as_pin_array gave makes get(i) return v and leaves every other
\* get(j) and the length as they were.
C8_WriteFrame == [][WriteFrame]_vars

C8_Witness ==
    /\ last.op = "write" /\ last.who = "iter_mut" /\ last.a = 1 /\ last.b = 1
    /\ size = MaxSize /\ size_of > 0
    /\ GetValue(0) = << 0 >> /\ GetValue(1) = << 1 >> /\ GetValue(2) = << 0 >>

\* The slots of as_ref_array() against the elements and the items of iter().
RefArrayMatches ==
    /\ Len(ref_array.slots) = size
    /\ \A k \in 1..size :
            /\ ref_array.slots[k] = IterItem([i |-> k - 1])
            /\ ref_array.slots[k].v.idx = k - 1
            /\ Load(ref_array.slots[k].v.addr) = elements[k]
            /\ \A id \in LiveIters :
                    k <= Len(iters[id].out) =>
                        iters[id].out[k] = ref_array.slots[k].v

\* The slots of as_pin_array() against the items of iter_mut() and get_pin.
PinArrayMatches ==
    /\ Len(pin_array.slots) = size
    /\ \A k \in 1..size :
            /\ pin_array.slots[k] = IterMutItem([el_ptr |-> as_mut_ptr, i |-> k - 1])
            /\ pin_array.slots[k] = get_pin(k - 1)

\* C9: as_ref_array() and as_pin_array() have SIZE slots, slot i the handle
\* of element i: the i-th item of iter(), respectively of iter_mut(); both
\* are empty and is_empty() is true when SIZE = 0.
C9_ArraysMatchIterators ==
    /\ ref_array.live => RefArrayMatches
    /\ pin_array.live => PinArrayMatches
    /\ size = 0 =>
            /\ is_empty
            /\ ref_array.live => ref_array.slots = << >>
            /\ pin_array.live => pin_array.slots = << >>

C9_Witness ==
    /\ ref_array.live /\ size = MaxSize /\ size_of > 0
    /\ \E id \in LiveIters : iters[id].fin

\* The Option of a get / get_pin call is None exactly out of range.
OptionInRange(r) ==
    /\ r.res.tag # "Panic"
    /\ (r.res = None <=> r.idx >= size)

\* C10: no call panics; an index out of range gives None and nothing else
\* does.
C10_NoPanic ==
    /\ ~panicked
    /\ get_ret.live => OptionInRange(get_ret)
    /\ pin_ret.live => OptionInRange(pin_ret)
    /\ ref_array.live => ~HasPanic(ref_array.slots)
    /\ pin_array.live => ~HasPanic(pin_array.slots)

C10_Witness ==
    /\ size = 0 /\ ~panicked
    /\ get_ret.live /\ get_ret.res = None
    /\ \E id \in LiveIters : iters[id].fin

====
